---- MODULE Spec2Model ----
(***************************************************************************)
(* Snap-n-Solve: the Sudoku reasoning core.                                *)
(*   sudokuSolver.py      best-first backtracking solver (solve_sudoku)    *)
(*   sudokuDifficulty.py  validator (is_valid_sudoku) and difficulty       *)
(*                        analyzer (calculate_difficulty)                  *)
(* The recursion of sudoku_helper is unfolded into an explicit stack of    *)
(* frames; one action is one stretch of code between two points where the  *)
(* grid or the control position changes.                                   *)
(***************************************************************************)
EXTENDS Integers, Sequences, FiniteSets, TLC

VARIABLES
    matrix,     \* the 9x9 grid the solver mutates in place: matrix[i][j]
    input,      \* the grid as the caller handed it over (never written)
    cont,       \* cont[0] of solve_sudoku: TRUE while the search goes on
    stack,      \* active sudoku_helper frames past the pop: [row, col, j]
    cell_heap,  \* the heap argument of the sudoku_helper call being entered
    pc,         \* control position
    verdict,    \* what is_valid_sudoku returned
    analysis    \* what calculate_difficulty returned

vars == <<matrix, input, cont, stack, cell_heap, pc, verdict, analysis>>

----------------------------------------------------------------------------
(* Program constants *)

GridSize == 9
BoxSize == 3

Idx == 0 .. (GridSize - 1)
Digits == 1 .. GridSize
BoxStart(k) == (k \div BoxSize) * BoxSize
BoxRows(row) == BoxStart(row) .. (BoxStart(row) + BoxSize - 1)

----------------------------------------------------------------------------
(* Bounds of the input family *)

MaxHoles == 10
MaxAlts == 2

\* A solved grid; inputs are this grid with some cells blanked and some
\* cells overwritten by a wrong digit (a misread clue).
SolvedRows ==
    << <<8, 3, 2, 4, 6, 9, 7, 1, 5>>,
       <<9, 5, 4, 7, 1, 2, 6, 8, 3>>,
       <<7, 1, 6, 5, 8, 3, 9, 2, 4>>,
       <<3, 9, 5, 1, 2, 7, 4, 6, 8>>,
       <<2, 6, 1, 8, 4, 5, 3, 9, 7>>,
       <<4, 8, 7, 3, 9, 6, 1, 5, 2>>,
       <<1, 2, 3, 6, 7, 8, 5, 4, 9>>,
       <<5, 4, 8, 9, 3, 1, 2, 7, 6>>,
       <<6, 7, 9, 2, 5, 4, 8, 3, 1>> >>

Solved == [i \in Idx |-> [j \in Idx |-> SolvedRows[i + 1][j + 1]]]

\* Cells that may be blanked, <<row, col>>; the first MaxHoles are used.
HoleCells ==
    << <<0, 0>>, <<0, 1>>, <<0, 2>>, <<4, 0>>, <<4, 2>>, <<6, 0>>, <<6, 1>>,
       <<6, 2>>, <<4, 3>>, <<6, 8>>, <<6, 6>>, <<2, 4>> >>

\* Cells that may be misread, <<row, col, digit>>; the first MaxAlts are used.
AltCells ==
    << <<4, 1, 2>>, <<0, 3, 8>>, <<0, 4, 3>>, <<2, 3, 1>>, <<8, 8, 2>> >>

Min(a, b) == IF a < b THEN a ELSE b

AltAt(alts, i, j) == {k \in alts : AltCells[k][1] = i /\ AltCells[k][2] = j}

InputGrid(holes, alts) ==
    [i \in Idx |-> [j \in Idx |->
        IF \E k \in holes : HoleCells[k] = <<i, j>> THEN 0
        ELSE IF AltAt(alts, i, j) # {}
             THEN AltCells[CHOOSE k \in AltAt(alts, i, j) : TRUE][3]
        ELSE Solved[i][j]]]

InputGrids ==
    { InputGrid(h, a) : h \in SUBSET (1 .. Min(MaxHoles, Len(HoleCells))),
                        a \in SUBSET (1 .. Min(MaxAlts, Len(AltCells))) }

----------------------------------------------------------------------------
(* sudokuSolver.py *)

\* EntryData(r, c, n)
EntryData(r, c, n) == [row |-> r, col |-> c, choices |-> n]

\* (variant: the comparison turned round)
EntryGt(a, b) == a.choices > b.choices

\* EntryData.__lt__
EntryLt(a, b) == a.choices < b.choices

\* The digits already used in the row, the column and the 3x3 square of
\* (i, j), the 0 of an empty cell included (can_pick[0] is dropped).
UsedAround(m, i, j) ==
    {m[i][k] : k \in Idx} \cup {m[k][j] : k \in Idx}
        \cup {m[r][c] : r \in BoxRows(i), c \in BoxRows(j)}

count_choices(m, i, j) == Cardinality({k \in Digits : k \notin UsedAround(m, i, j)})

\* (variant: the column check left out)
can_be_correct_no_column(m, row, col) ==
    /\ ~ \E c \in Idx : m[row][col] # 0 /\ col # c /\ m[row][col] = m[row][c]
    /\ ~ \E i \in BoxRows(row), j \in BoxRows(col) :
            row # i /\ col # j /\ m[i][j] # 0 /\ m[i][j] = m[row][col]

\* (variant: the row check compares the cell with itself, "col != c" missing)
can_be_correct_compares_self(m, row, col) ==
    /\ ~ \E c \in Idx : m[row][col] # 0 /\ m[row][col] = m[row][c]
    /\ ~ \E r \in Idx : m[row][col] # 0 /\ row # r /\ m[row][col] = m[r][col]
    /\ ~ \E i \in BoxRows(row), j \in BoxRows(col) :
            row # i /\ col # j /\ m[i][j] # 0 /\ m[i][j] = m[row][col]

can_be_correct(m, row, col) ==
    /\ ~ \E c \in Idx : m[row][col] # 0 /\ col # c /\ m[row][col] = m[row][c]
    /\ ~ \E r \in Idx : m[row][col] # 0 /\ row # r /\ m[row][col] = m[r][col]
    /\ ~ \E i \in BoxRows(row), j \in BoxRows(col) :
            row # i /\ col # j /\ m[i][j] # 0 /\ m[i][j] = m[row][col]

all_board_non_zero(m) == \A i \in Idx, j \in Idx : m[i][j] # 0

\* heapq._siftdown(heap, 0, pos), pos counted from 0: the new item moves up
\* while it is strictly smaller than its parent.
RECURSIVE SiftDown(_, _)
SiftDown(h, pos) ==
    IF pos = 0 THEN h
    ELSE LET parentpos == (pos - 1) \div 2
         IN  IF EntryLt(h[pos + 1], h[parentpos + 1])
             THEN SiftDown([h EXCEPT ![pos + 1] = h[parentpos + 1],
                                     ![parentpos + 1] = h[pos + 1]], parentpos)
             ELSE h

heappush(h, item) == SiftDown(Append(h, item), Len(h))

\* The item heapq.heappop returns; what is left of the heap is never read.
heappop(h) == h[1]

\* "if matrix[i][j] == 0: # If it is unfilled"
IsUnfilled(m, i, j) == m[i][j] = 0

\* The cells the two loops visit, row by row, as k = i * 9 + j
AllCells == [k \in 1 .. GridSize * GridSize |-> k - 1]

\* The two loops that fill a fresh heap: every unfilled cell, in the order of
\* the loops, is pushed with its number of choices.
RECURSIVE PushAll(_, _, _)
PushAll(m, cells, n) ==
    IF n = 0 THEN << >>
    ELSE LET i == cells[n] \div GridSize
             j == cells[n] % GridSize
         IN  heappush(PushAll(m, cells, n - 1),
                      EntryData(i, j, count_choices(m, i, j)))

BuildHeap(m) ==
    LET unfilled == SelectSeq(AllCells,
                        LAMBDA k : IsUnfilled(m, k \div GridSize, k % GridSize))
    IN  PushAll(m, unfilled, Len(unfilled))

\* "for j in range(1, 10)": the digit tried after j
NextDigit(j) == j + 1
LoopDone(j) == j > GridSize

\* (variant: row and column swapped in the write)
WriteCellTransposed(m, row, col, j) == [m EXCEPT ![col][row] = j]

\* "matrix[row][col] = j"
WriteCell(m, row, col, j) == [m EXCEPT ![row][col] = j]

\* (variant: stopping point 3 missing)
StoppingPoint3Never(c) == FALSE

\* Stopping point 3
StoppingPoint3(c) == ~c

\* (variant: the backtrack forgotten)
ClearCellSkipped(m, row, col) == m

\* "matrix[row][col] = 0  # Backtrack"
ClearCell(m, row, col) == [m EXCEPT ![row][col] = 0]

----------------------------------------------------------------------------
(* sudokuDifficulty.py: the validator *)

Verdict(ok, kind, val, idx, idx2) ==
    [ok |-> ok, kind |-> kind, val |-> val, idx |-> idx, idx2 |-> idx2]

NotRun == Verdict(FALSE, "notrun", 0, 0, 0)

\* One unit scanned in order with the dictionary `values`: the first non-zero
\* value that is already in it, or 0.
RECURSIVE ScanUnit(_, _, _)
ScanUnit(cells, k, values) ==
    IF k > Len(cells) THEN 0
    ELSE LET val == cells[k]
         IN  IF val # 0 /\ val \in values THEN val
             ELSE ScanUnit(cells, k + 1, IF val # 0 THEN values \cup {val} ELSE values)

RowCells(g, row) == [k \in 1 .. GridSize |-> g[row][k - 1]]
ColCells(g, col) == [k \in 1 .. GridSize |-> g[k - 1][col]]
BoxCells(g, b) ==
    [k \in 1 .. GridSize |->
        g[(b \div BoxSize) * BoxSize + ((k - 1) \div BoxSize)]
         [(b % BoxSize) * BoxSize + ((k - 1) % BoxSize)]]

Rows(g) == [u \in 1 .. GridSize |-> RowCells(g, u - 1)]
Cols(g) == [u \in 1 .. GridSize |-> ColCells(g, u - 1)]
Boxes(g) == [u \in 1 .. GridSize |-> BoxCells(g, u - 1)]

\* The first unit, in the order of the loop, whose scan finds a duplicate:
\* <<unit counted from 0, value>>, or <<GridSize, 0>>.
RECURSIVE FirstDup(_, _)
FirstDup(units, u) ==
    IF u = GridSize THEN <<GridSize, 0>>
    ELSE LET d == ScanUnit(units[u + 1], 1, {})
         IN  IF d # 0 THEN <<u, d>> ELSE FirstDup(units, u + 1)

\* (variant: the column left out)
get_possibilities_no_column(g, row, col) ==
    IF g[row][col] # 0 THEN {}
    ELSE {d \in Digits :
            d \notin {g[row][k] : k \in Idx}
                        \cup {g[r][c] : r \in BoxRows(row), c \in BoxRows(col)}}

get_possibilities(g, row, col) ==
    IF g[row][col] # 0 THEN {}
    ELSE {d \in Digits : d \notin UsedAround(g, row, col)}

check_solution_exists(g) ==
    ~ \E i \in Idx, j \in Idx : g[i][j] = 0 /\ get_possibilities(g, i, j) = {}

\* (variant: the columns scanned before the rows)
is_valid_sudoku_columns_first(g) ==
    LET r == FirstDup(Rows(g), 0)
        c == FirstDup(Cols(g), 0)
        b == FirstDup(Boxes(g), 0)
    IN  IF c[2] # 0 THEN Verdict(FALSE, "column", c[2], c[1] + 1, 0)
        ELSE IF r[2] # 0 THEN Verdict(FALSE, "row", r[2], r[1] + 1, 0)
        ELSE IF b[2] # 0
             THEN Verdict(FALSE, "box", b[2], (b[1] \div BoxSize) + 1, (b[1] % BoxSize) + 1)
        ELSE IF ~check_solution_exists(g) THEN Verdict(FALSE, "nosolution", 0, 0, 0)
        ELSE Verdict(TRUE, "none", 0, 0, 0)

is_valid_sudoku(g) ==
    LET r == FirstDup(Rows(g), 0)
        c == FirstDup(Cols(g), 0)
        b == FirstDup(Boxes(g), 0)
    IN  IF r[2] # 0 THEN Verdict(FALSE, "row", r[2], r[1] + 1, 0)
        ELSE IF c[2] # 0 THEN Verdict(FALSE, "column", c[2], c[1] + 1, 0)
        ELSE IF b[2] # 0
             THEN Verdict(FALSE, "box", b[2], (b[1] \div BoxSize) + 1, (b[1] % BoxSize) + 1)
        ELSE IF ~check_solution_exists(g) THEN Verdict(FALSE, "nosolution", 0, 0, 0)
        ELSE Verdict(TRUE, "none", 0, 0, 0)

----------------------------------------------------------------------------
(* sudokuDifficulty.py: the difficulty analyzer.  Scores are exact rationals *)
(* [num, den]; the final score is kept in twentieths (final_score * 20).     *)

Rat(n, d) == [num |-> n, den |-> d]

Abs(x) == IF x < 0 THEN -x ELSE x

IsFilled(g, k) == g[k \div GridSize][k % GridSize] # 0

\* round(): Python rounds a tie to the even neighbour
RoundHalfEven(n, d) ==
    LET q == n \div d
        r == n % d
    IN  IF 2 * r < d THEN q
        ELSE IF 2 * r > d THEN q + 1
        ELSE IF q % 2 = 0 THEN q ELSE q + 1

check_symmetry(g) ==
    LET checked == {c \in Idx \X Idx :
                        ~(c[1] = GridSize - 1 - c[1] /\ c[2] = GridSize - 1 - c[2])}
        total_checks == Cardinality(checked)
        symmetry_count == Cardinality({c \in checked :
            (g[c[1]][c[2]] = 0) = (g[GridSize - 1 - c[1]][GridSize - 1 - c[2]] = 0)})
    IN  IF total_checks > 0 THEN RoundHalfEven(10 * symmetry_count, total_checks)
        ELSE 10

\* "Find all filled cells": filled_cells, each cell as k = i * 9 + j
filled_cells(g) == SelectSeq(AllCells, LAMBDA k : IsFilled(g, k))

manhattan_distance(cell1, cell2) ==
    Abs((cell1 \div GridSize) - (cell2 \div GridSize))
        + Abs((cell1 % GridSize) - (cell2 % GridSize))

\* The distances from cell1 to filled[lo .. hi], summed (the inner loop over
\* filled_cells[i+1:]); the range is halved to keep the evaluation shallow.
RECURSIVE DistanceFrom(_, _, _, _)
DistanceFrom(filled, cell1, lo, hi) ==
    IF lo > hi THEN 0
    ELSE IF lo = hi THEN manhattan_distance(cell1, filled[lo])
    ELSE LET mid == (lo + hi) \div 2
         IN  DistanceFrom(filled, cell1, lo, mid)
                + DistanceFrom(filled, cell1, mid + 1, hi)

\* total_distance over the pairs whose first cell is filled[lo .. hi]
RECURSIVE TotalDistance(_, _, _)
TotalDistance(filled, lo, hi) ==
    IF lo > hi THEN 0
    ELSE IF lo = hi THEN DistanceFrom(filled, filled[lo], lo + 1, Len(filled))
    ELSE LET mid == (lo + hi) \div 2
         IN  TotalDistance(filled, lo, mid) + TotalDistance(filled, mid + 1, hi)

calculate_isolation(g) ==
    LET filled == filled_cells(g)
        n == Len(filled)
        comparisons == (n * (n - 1)) \div 2
        total_distance == TotalDistance(filled, 1, n)
    IN  IF n = 0 THEN Rat(0, 1)
        ELSE IF comparisons = 0 THEN Rat(0, 1)
        \* min(10, avg_distance * 10 / 8), avg_distance = total / comparisons
        ELSE IF 10 * total_distance >= 10 * 8 * comparisons THEN Rat(10, 1)
        ELSE Rat(5 * total_distance, 4 * comparisons)

box_counts(g) ==
    [b \in 1 .. GridSize |->
        Cardinality({c \in Idx \X Idx :
            g[c[1]][c[2]] # 0
            /\ (c[1] \div BoxSize) * BoxSize + (c[2] \div BoxSize) = b - 1})]

RECURSIVE SeqSum(_, _)
SeqSum(s, n) == IF n = 0 THEN 0 ELSE s[n] + SeqSum(s, n - 1)

calculate_regional_density(g) ==
    LET counts == box_counts(g)
        total == SeqSum(counts, GridSize)
        squares == SeqSum([b \in 1 .. GridSize |-> counts[b] * counts[b]], GridSize)
        \* variance = sum((count - total/9)^2) / 9 = variance81 / 81
        variance81 == GridSize * squares - total * total
    IN  \* min(10, variance * 10 / 5)
        IF 10 * variance81 >= 10 * 5 * GridSize * GridSize THEN Rat(10, 1)
        ELSE Rat(2 * variance81, GridSize * GridSize)

count_naked_singles(g) ==
    Cardinality({c \in Idx \X Idx :
        g[c[1]][c[2]] = 0 /\ Cardinality(get_possibilities(g, c[1], c[2])) = 1})

\* (variant: the last bucket scored 100, the top of the documented scale)
estimate_solving_techniques_100(g) ==
    LET naked_singles == count_naked_singles(g)
    IN  IF naked_singles > 15 THEN 10
        ELSE IF naked_singles > 10 THEN 30
        ELSE IF naked_singles > 5 THEN 60
        ELSE 100

estimate_solving_techniques(g) ==
    LET naked_singles == count_naked_singles(g)
    IN  IF naked_singles > 15 THEN 10
        ELSE IF naked_singles > 10 THEN 30
        ELSE IF naked_singles > 5 THEN 60
        ELSE 90

\* min(empty_cells * 1.5, 45), in twentieths
EmptyCellPoints20(empty_cells) == Min(30 * empty_cells, 900)

calculate_difficulty(g) ==
    LET empty_cells == Cardinality({c \in Idx \X Idx : g[c[1]][c[2]] = 0})
        symmetry_score == check_symmetry(g)
        isolation_factor == calculate_isolation(g)
        regional_density == calculate_regional_density(g)
        technique_score == estimate_solving_techniques(g)
        \* 20 * (min(e * 1.5, 45) + t * 0.35 + (10 - s) * 0.1)
        whole == EmptyCellPoints20(empty_cells) + 7 * technique_score
                    + 2 * (10 - symmetry_score)
        \* ... + 20 * (isolation * 0.05 + density * 0.05)
        num == whole * isolation_factor.den * regional_density.den
                 + isolation_factor.num * regional_density.den
                 + regional_density.num * isolation_factor.den
        den == isolation_factor.den * regional_density.den
    IN  [tier |-> IF num < 20 * 40 * den THEN "Easy"
                  ELSE IF num < 20 * 60 * den THEN "Medium"
                  ELSE IF num < 20 * 80 * den THEN "Hard"
                  ELSE "Expert",
         num |-> num, den |-> den]

----------------------------------------------------------------------------
(* The state machine *)

NoAnalysis == [tier |-> "none", num |-> 0, den |-> 1]

Init ==
    /\ matrix \in InputGrids
    /\ input = matrix
    /\ cont = TRUE
    /\ stack = << >>
    /\ cell_heap = << >>
    /\ pc = "validate"
    /\ verdict = NotRun
    /\ analysis = NoAnalysis

\* The caller validates the grid, then runs the solver whatever the verdict.
Validate ==
    /\ pc = "validate"
    /\ verdict' = is_valid_sudoku(matrix)
    /\ pc' = "solve"
    /\ UNCHANGED <<matrix, input, cont, stack, cell_heap, analysis>>

\* solve_sudoku up to its call of sudoku_helper
solve_sudoku ==
    /\ pc = "solve"
    /\ cont' = TRUE
    /\ IF \E i \in Idx, j \in Idx : ~can_be_correct(matrix, i, j)
       THEN pc' = "done" /\ cell_heap' = << >>
       ELSE pc' = "helper" /\ cell_heap' = BuildHeap(matrix)
    /\ UNCHANGED <<matrix, input, stack, verdict, analysis>>

\* Where a returning sudoku_helper frame lands, given the frames below it.
ReturnTo(below) == IF below = << >> THEN "done" ELSE "loop"

\* sudoku_helper from its entry to the first iteration of its loop
sudoku_helper_enter ==
    /\ pc = "helper"
    /\ IF ~cont
       THEN /\ pc' = ReturnTo(stack)
            /\ UNCHANGED <<cont, stack>>
       ELSE IF cell_heap = << >>
       THEN /\ cont' = FALSE
            /\ pc' = ReturnTo(stack)
            /\ UNCHANGED stack
       ELSE LET best_candidate == heappop(cell_heap)
            IN  /\ stack' = Append(stack, [row |-> best_candidate.row,
                                           col |-> best_candidate.col, j |-> 1])
                /\ pc' = "loop"
                /\ UNCHANGED cont
    /\ cell_heap' = << >>
    /\ UNCHANGED <<matrix, input, verdict, analysis>>

\* One iteration of "for j in range(1, 10)" of the innermost frame
sudoku_helper_try ==
    /\ pc = "loop"
    /\ LET f == stack[Len(stack)]
           below == SubSeq(stack, 1, Len(stack) - 1)
       IN  /\ ~LoopDone(f.j)
           /\ IF ~cont
              THEN /\ stack' = below
                   /\ pc' = ReturnTo(below)
                   /\ UNCHANGED <<matrix, cell_heap>>
              ELSE LET m == WriteCell(matrix, f.row, f.col, f.j)
                   IN  /\ matrix' = m
                       /\ stack' = [stack EXCEPT ![Len(stack)].j = NextDigit(f.j)]
                       /\ IF can_be_correct(m, f.row, f.col)
                          THEN pc' = "helper" /\ cell_heap' = BuildHeap(m)
                          ELSE pc' = "loop" /\ UNCHANGED cell_heap
    /\ UNCHANGED <<input, cont, verdict, analysis>>

\* The innermost frame after its loop: stopping point 3, then the backtrack
sudoku_helper_backtrack ==
    /\ pc = "loop"
    /\ LET f == stack[Len(stack)]
           below == SubSeq(stack, 1, Len(stack) - 1)
       IN  /\ LoopDone(f.j)
           /\ matrix' = IF StoppingPoint3(cont) THEN matrix
                        ELSE ClearCell(matrix, f.row, f.col)
           /\ stack' = below
           /\ pc' = ReturnTo(below)
    /\ UNCHANGED <<input, cont, cell_heap, verdict, analysis>>

Next ==
    \/ Validate
    \/ solve_sudoku
    \/ sudoku_helper_enter
    \/ sudoku_helper_try
    \/ sudoku_helper_backtrack

Spec == Init /\ [][Next]_vars

----------------------------------------------------------------------------
(* The analyzer on its own inputs: the solved grid with whole boxes blanked *)
(* and the first n hole cells blanked.                                      *)

DifficultyGrid(boxes, n) ==
    [i \in Idx |-> [j \in Idx |->
        IF (i \div BoxSize) * BoxSize + (j \div BoxSize) \in boxes THEN 0
        ELSE IF \E k \in 1 .. n : HoleCells[k] = <<i, j>> THEN 0
        ELSE Solved[i][j]]]

DifficultyGrids ==
    { DifficultyGrid(b, n) : b \in SUBSET Idx,
                             n \in 0 .. Min(MaxHoles, Len(HoleCells)) }

InitD ==
    /\ matrix \in DifficultyGrids
    /\ input = matrix
    /\ cont = TRUE
    /\ stack = << >>
    /\ cell_heap = << >>
    /\ pc = "analyze"
    /\ verdict = NotRun
    /\ analysis = NoAnalysis

Analyze ==
    /\ pc = "analyze"
    /\ analysis' = calculate_difficulty(matrix)
    /\ pc' = "analyzed"
    /\ UNCHANGED <<matrix, input, cont, stack, cell_heap, verdict>>

NextD == Analyze

SpecD == InitD /\ [][NextD]_vars

----------------------------------------------------------------------------
(* What the claims speak of, stated without the program's own procedures *)

Cells == Idx \X Idx

SameBox(a, b) ==
    a[1] \div BoxSize = b[1] \div BoxSize /\ a[2] \div BoxSize = b[2] \div BoxSize

\* The cells that share a row, a column or a box with cell a
PeersOf ==
    [a \in Cells |->
        {b \in Cells : b # a /\ (b[1] = a[1] \/ b[2] = a[2] \/ SameBox(a, b))}]

Peers(a) == PeersOf[a]

EmptyCells(g) == {a \in Cells : g[a[1]][a[2]] = 0}

\* A non-zero digit repeated in a row, a column or a box
HasDuplicate(g) ==
    \E a \in Cells : g[a[1]][a[2]] # 0
                     /\ \E b \in Peers(a) : g[b[1]][b[2]] = g[a[1]][a[2]]

\* An empty cell whose row, column and box together hold all of 1..9
ZeroCandidates(g, a) ==
    /\ g[a[1]][a[2]] = 0
    /\ Digits \subseteq {g[b[1]][b[2]] : b \in Peers(a)}

HasZeroCandidateCell(g) == \E a \in EmptyCells(g) : ZeroCandidates(g, a)

\* Every cell in 1..9; each row, column and box holds each digit exactly once
ValidSolution(g) ==
    /\ \A a \in Cells : g[a[1]][a[2]] \in Digits
    /\ \A u \in Idx, d \in Digits :
          /\ Cardinality({j \in Idx : g[u][j] = d}) = 1
          /\ Cardinality({i \in Idx : g[i][u] = d}) = 1
          /\ Cardinality({a \in Cells :
                 (a[1] \div BoxSize) * BoxSize + (a[2] \div BoxSize) = u
                 /\ g[a[1]][a[2]] = d}) = 1

\* Whether cells[n ..] of g, its empty cells in reading order, can be filled
\* so that no digit repeats in a unit (plain search, cell by cell).
RECURSIVE CanFill(_, _, _)
CanFill(g, cells, n) ==
    IF n > Len(cells) THEN TRUE
    ELSE LET a == <<cells[n] \div GridSize, cells[n] % GridSize>>
             used == {g[b[1]][b[2]] : b \in Peers(a)}
         IN  \E d \in Digits \ used :
                CanFill([g EXCEPT ![a[1]][a[2]] = d], cells, n + 1)

\* A duplicate-free grid has a valid completion
HasCompletion(g) ==
    CanFill(g, SelectSeq(AllCells, LAMBDA k : g[k \div GridSize][k % GridSize] = 0), 1)

\* The columns of row r at which a non-zero digit equals an earlier one
RepeatsInRow(g, r) ==
    {c \in Idx : g[r][c] # 0 /\ \E e \in 0 .. c - 1 : g[r][e] = g[r][c]}

RowsWithRepeat(g) == {r \in Idx : RepeatsInRow(g, r) # {}}

ColumnsWithRepeat(g) ==
    {c \in Idx : \E r \in Idx, q \in Idx : r # q /\ g[r][c] # 0 /\ g[r][c] = g[q][c]}

SetMin(S) == CHOOSE x \in S : \A y \in S : x <= y

Done == pc = "done"

\* How far solve_sudoku has come: the phase, then for each active frame the
\* digit it will try next, marked 0 while the call it made is being entered,
\* 1 while a deeper frame runs under it and 2 while it runs its own loop.
Phase ==
    IF pc = "validate" THEN 0
    ELSE IF pc = "solve" THEN 1
    ELSE IF pc = "done" THEN 3
    ELSE 2

Position ==
    <<Phase>> \o
    [k \in 1 .. Len(stack) |->
        3 * stack[k].j + (IF k < Len(stack) THEN 1
                          ELSE IF pc = "helper" THEN 0 ELSE 2)]

\* Some action's guard holds: a call is being made, or a frame is active
CanStep ==
    \/ pc \in {"validate", "solve", "helper"}
    \/ pc = "loop" /\ stack # << >>

\* Lexicographic order, a proper prefix being smaller
PositionLess(p, q) ==
    \E k \in 1 .. Len(q) :
        /\ k <= Len(p) + 1
        /\ \A i \in 1 .. k - 1 : p[i] = q[i]
        /\ k <= Len(p) => p[k] < q[k]
Succeeded == Done /\ cont = FALSE
Failed == Done /\ cont = TRUE

----------------------------------------------------------------------------
(* The claims *)

\* C1: whenever solve_sudoku returns with the search having succeeded (empty
\* frontier, cont[0] set to False), every cell of the grid is in 1..9 and
\* every row, column and 3x3 box holds each digit exactly once.
C1_SuccessIsValidSolution == Succeeded => ValidSolution(matrix)

\* A successful search over a puzzle with at least eight empty cells
C1_Witness == Succeeded /\ Cardinality(EmptyCells(input)) >= 8

\* C2: for every grid on which is_valid_sudoku reports a duplicate, after
\* solve_sudoku returns the grid is not presented as a solution, that is
\* all_board_non_zero(grid) is False, also when the input has no empty cell.
C2_DuplicateNeverPresented ==
    (Done /\ verdict.kind \in {"row", "column", "box"}) => ~all_board_non_zero(matrix)

\* C3: for every duplicate-free grid with a valid completion solve_sudoku
\* terminates with the grid completely filled; on a duplicate-free grid it
\* ends in failure only by the root frame running out of digits, and only
\* if the input has no valid completion.
C3_SolvableGridIsSolved ==
    [][/\ PositionLess(Position, Position')
       /\ (Done \/ CanStep)'
       /\ (Done /\ ~HasDuplicate(input) =>
              IF HasCompletion(input)
              THEN cont = FALSE /\ all_board_non_zero(matrix)
              ELSE cont = TRUE)'
       /\ (pc' = "done" /\ cont' = TRUE /\ ~HasDuplicate(input)) =>
              (pc = "loop" /\ Len(stack) = 1 /\ LoopDone(stack[1].j))]_vars

\* A solvable puzzle solved only after a frame that had recursed ran out of
\* digits and was undone (all eight cells of the core pattern empty)
C3_Witness ==
    /\ Succeeded
    /\ ~HasDuplicate(input)
    /\ \A k \in 1 .. 8 : input[HoleCells[k][1]][HoleCells[k][2]] = 0
    /\ matrix # Solved

\* C4: a duplicate-free grid with an empty cell that has zero candidates is
\* reported infeasible by both: is_valid_sudoku returns (False, "Puzzle has
\* no solution") and solve_sudoku ends without success, the grid still
\* holding an empty cell on return.
C4_ZeroCandidateInfeasible ==
    (pc \in {"solve", "done"} /\ HasZeroCandidateCell(input) /\ ~HasDuplicate(input)) =>
        /\ verdict = Verdict(FALSE, "nosolution", 0, 0, 0)
        /\ Done => (cont = TRUE /\ ~all_board_non_zero(matrix))

C4_Witness ==
    /\ Failed
    /\ HasZeroCandidateCell(input)
    /\ ~HasDuplicate(input)
    /\ verdict.kind = "nosolution"

\* C5: when some row holds a repeated non-zero digit, is_valid_sudoku returns
\* (False, "Duplicate d in row r") with r the 1-indexed lowest row that holds
\* a repeat and d the first digit of that row, left to right, that equals an
\* earlier one; a row duplicate is reported before any column or box
\* duplicate, and a column duplicate before a box duplicate.
C5_RowDuplicateReportedFirst ==
    (pc = "solve") =>
        /\ RowsWithRepeat(input) # {} =>
              LET r == SetMin(RowsWithRepeat(input))
                  d == input[r][SetMin(RepeatsInRow(input, r))]
              IN  verdict = Verdict(FALSE, "row", d, r + 1, 0)
        /\ (RowsWithRepeat(input) = {} /\ ColumnsWithRepeat(input) # {}) =>
              (verdict.ok = FALSE /\ verdict.kind = "column")

\* Two rows hold a repeat, and so does a column: the lower row is reported
C5_Witness ==
    /\ pc = "solve"
    /\ Cardinality(RowsWithRepeat(input)) >= 2
    /\ ColumnsWithRepeat(input) # {}
    /\ verdict.kind = "row"

\* C6 (as claimed): if the input grid has an empty cell with zero candidates,
\* sudoku_helper is never entered and no digit is ever written into the grid.
C6_NoSearchOnZeroCandidate ==
    HasZeroCandidateCell(input) => (pc # "helper" /\ stack = << >> /\ matrix = input)

\* C6 (amended): if the input grid has an empty cell with zero candidates, the
\* search never goes past the root frame: sudoku_helper is entered only from
\* solve_sudoku, the cell it pops is an empty cell with zero candidates, only
\* that cell is ever written, no digit written there passes can_be_correct,
\* and solve_sudoku returns without success with the grid equal to the input.
C6_ZeroCandidateFailsAtRoot ==
    HasZeroCandidateCell(input) =>
        /\ Len(stack) <= 1
        /\ pc = "helper" => (stack = << >> /\ matrix = input)
        /\ cont = TRUE
        /\ stack # << >> =>
              /\ ZeroCandidates(input, <<stack[1].row, stack[1].col>>)
              /\ \A a \in Cells : a # <<stack[1].row, stack[1].col>> =>
                                      matrix[a[1]][a[2]] = input[a[1]][a[2]]
              /\ matrix[stack[1].row][stack[1].col] # 0 =>
                    ~can_be_correct(matrix, stack[1].row, stack[1].col)
        /\ stack = << >> => matrix = input

\* The root frame has written its last digit into the zero-candidate cell
\* while another empty cell still has a candidate
C6_Witness ==
    /\ HasZeroCandidateCell(input)
    /\ pc = "loop"
    /\ Len(stack) = 1
    /\ matrix[stack[1].row][stack[1].col] = GridSize
    /\ \E a \in EmptyCells(input) : ~ZeroCandidates(input, a)

\* C7: once the success flag is raised (cont[0] = False), every step of
\* solve_sudoku returns from one frame, tries no further digit, enters no
\* further call and leaves the grid as it is.
C7_NoWriteAfterSuccess ==
    [][cont = FALSE =>
          /\ matrix' = matrix
          /\ pc' # "helper"
          /\ Len(stack') = Len(stack) - 1
          /\ cont' = FALSE]_vars

\* Success raised under a frame whose loop had reached its last digit, with
\* frames above it: that frame returns through stopping point 3
C7_Witness ==
    /\ cont = FALSE
    /\ pc = "loop"
    /\ Len(stack) >= 2
    /\ LoopDone(stack[Len(stack)].j)

\* C8: whenever solve_sudoku ends without success the grid on return is
\* cell for cell the input grid.
C8_FailureRestoresGrid == Failed => matrix = input

\* A failed search that went below the root: no duplicate, no empty cell
\* with zero candidates to fail on at once
C8_Witness ==
    /\ Failed
    /\ ~HasDuplicate(input)
    /\ ~HasZeroCandidateCell(input)
    /\ EmptyCells(input) # {}

\* C9: in every state reached during solve_sudoku, each cell that was
\* non-zero in the input grid still holds its input value.
C9_CluesPreserved ==
    \A a \in Cells : input[a[1]][a[2]] # 0 => matrix[a[1]][a[2]] = input[a[1]][a[2]]

\* Deep in a search: four frames active, four cells filled in
C9_Witness ==
    /\ Len(stack) >= 4
    /\ Cardinality({a \in Cells : matrix[a[1]][a[2]] # input[a[1]][a[2]]}) >= 4

====
